---- MODULE Spec2Model ----
(***************************************************************************)
(* The OPA authorization gate of the FastAPI service:                      *)
(*   OPAMiddleware.dispatch       (app/infrastructure/middleware.py)       *)
(*   OPAAdapter.check_permission  (app/adapters/opa_adapter.py)            *)
(*   the routes behind the gate   (app/main.py, app/infrastructure/routes) *)
(*                                                                         *)
(* Python strings that the code splits or tests by prefix are modelled as  *)
(* sequences of one-character strings.  Requests are handled concurrently: *)
(* every request slot runs dispatch, which suspends at its two awaits      *)
(* (the policy call and call_next).                                        *)
(***************************************************************************)
EXTENDS Naturals, Sequences, FiniteSets

VARIABLES pc, request, opa_input, evals, sent, reply, result, handlerSaw,
          response, rolesPc, rolesIn, rolesOut, pathPc, pathIn, pathOut

gateVars  == <<pc, request, opa_input, evals, sent, reply, result, handlerSaw, response>>
rolesVars == <<rolesPc, rolesIn, rolesOut>>
pathVars  == <<pathPc, pathIn, pathOut>>
vars      == <<pc, request, opa_input, evals, sent, reply, result, handlerSaw,
               response, rolesPc, rolesIn, rolesOut, pathPc, pathIn, pathOut>>

(***************************************************************************)
(* Bounds                                                                  *)
(***************************************************************************)
\* number of requests in flight at once
NumReqs == 2
\* longest USER_ROLES header value enumerated for the role derivation
MaxHeaderLen == 4
\* longest request path enumerated for the path derivation
MaxPathLen == 4

Reqs == 1..NumReqs

(***************************************************************************)
(* Strings                                                                 *)
(***************************************************************************)
\* str.startswith(prefix)
StartsWith(s, prefix) ==
    /\ Len(s) >= Len(prefix)
    /\ SubSeq(s, 1, Len(prefix)) = prefix

\* index of the first occurrence of the one-character separator, 0 if none
FirstIndex(s, sep) ==
    IF \E i \in 1..Len(s) : s[i] = sep
    THEN CHOOSE i \in 1..Len(s) : s[i] = sep /\ \A j \in 1..(i - 1) : s[j] # sep
    ELSE 0

\* str.split(sep) with a one-character separator: "".split(",") is [""]
RECURSIVE Split(_, _)
Split(s, sep) ==
    LET i == FirstIndex(s, sep) IN
    IF i = 0 THEN <<s>>
    ELSE <<SubSeq(s, 1, i - 1)>> \o Split(SubSeq(s, i + 1, Len(s)), sep)

(***************************************************************************)
(* Requests                                                                *)
(***************************************************************************)
HealthPrefix == <<"/", "h", "e", "a", "l", "t", "h">>

PathLiveness   == <<"/", "h", "e", "a", "l", "t", "h", "/", "l", "i", "v", "e", "n", "e", "s", "s">>
PathReadiness  == <<"/", "h", "e", "a", "l", "t", "h", "/", "r", "e", "a", "d", "i", "n", "e", "s", "s">>
PathHealthcare == <<"/", "h", "e", "a", "l", "t", "h", "c", "a", "r", "e", "/", "a", "d", "m", "i", "n">>
PathUsersBob   == <<"/", "v", "1", "/", "a", "d", "m", "i", "n", "/", "u", "s", "e", "r", "s", "/", "b", "o", "b">>

Paths   == {PathLiveness, PathHealthcare, PathUsersBob}
Methods == {"GET", "POST"}

\* the USER_ROLES header: absent, or present with a value
AbsentHeader   == [present |-> FALSE, value |-> <<>>]
HeaderOf(v)    == [present |-> TRUE, value |-> v]
Headers        == {AbsentHeader, HeaderOf(<<"a", ",", "b">>)}

NoRequest == [path |-> <<>>, method |-> "", USER_ROLES |-> AbsentHeader]

\* request.headers.get("USER_ROLES", "")
HeaderGet(h) == IF h.present THEN h.value ELSE <<>>

\* roles = roles_header.split(",") if roles_header else []
RolesOf_alwaysSplit(roles_header) == Split(roles_header, ",")
RolesOf(roles_header) ==
    IF roles_header # <<>> THEN Split(roles_header, ",") ELSE <<>>

\* a mutant: empty segments dropped
PathSegments_dropEmpty(path) ==
    SelectSeq(Split(path, "/"), LAMBDA seg : seg # <<>>)

\* request.url.path.split("/")
PathSegments(path) == Split(path, "/")

NoInput == [built |-> FALSE, path |-> <<>>, roles |-> <<>>, method |-> ""]

\* opa_input = {"path": ..., "roles": ..., "method": ...}
OpaInput(req) ==
    [built  |-> TRUE,
     path   |-> PathSegments(req.path),
     roles  |-> RolesOf(HeaderGet(req.USER_ROLES)),
     method |-> req.method]

OPA_SERVER_URL == "http://localhost:8181/v1/data/sample"

\* self.client.post(self.opa_url, json={"input": input_data})
PostOf(input_data) == [url |-> OPA_SERVER_URL, json |-> [input |-> input_data]]

(***************************************************************************)
(* The policy engine's answer to one POST, as httpx hands it to the        *)
(* adapter: a transport failure, or an HTTP response with a status and a   *)
(* body.  A body is unparseable, or JSON whose top level is an object or   *)
(* an array; an object may hold "result" (an object or null), which may    *)
(* hold "allow" (a JSON value, written as JSON text).                      *)
(***************************************************************************)
NoBody == [parseable |-> FALSE, top |-> "", result |-> "", allow |-> ""]
JsonArray == [parseable |-> TRUE, top |-> "array", result |-> "", allow |-> ""]
JsonObject(res, allow) ==
    [parseable |-> TRUE, top |-> "object", result |-> res, allow |-> allow]

TransportFailure(exc) == [kind |-> "transport", exc |-> exc, status |-> 0, body |-> NoBody]
HttpReply(status, body) == [kind |-> "http", exc |-> "", status |-> status, body |-> body]

NoReply == [kind |-> "none", exc |-> "", status |-> 0, body |-> NoBody]

AllowValues == {"true", "false", "\"false\"", "[0]"}

Replies ==
    {TransportFailure("ConnectError"),
     HttpReply(503, JsonObject("object", "true")),
     HttpReply(200, NoBody),
     HttpReply(200, JsonArray),
     HttpReply(200, JsonObject("absent", "absent")),
     HttpReply(200, JsonObject("null", "absent")),
     HttpReply(200, JsonObject("object", "absent"))}
    \cup {HttpReply(200, JsonObject("object", a)) : a \in AllowValues}

\* httpx: Response.is_success
IsSuccess(status) == status >= 200 /\ status <= 299

\* response.json(): the Python value of a JSON value
PyOfJson(j) ==
    CASE j = "true"      -> "True"
      [] j = "false"     -> "False"
      [] j = "null"      -> "None"
      [] j = "\"false\"" -> "'false'"
      [] j = "[0]"       -> "[0]"
      [] OTHER           -> "?"

\* Python truth value of what check_permission returns
Truthy(v) == v \notin {"False", "None", "0", "''", "[]", "{}"}

(***************************************************************************)
(* OPAAdapter.check_permission, from the reply of its one POST on.         *)
(***************************************************************************)
NoResult == [outcome |-> "pending", value |-> "", message |-> "", cause |-> "", context |-> ""]
Returned(v) == [outcome |-> "returned", value |-> v, message |-> "", cause |-> "", context |-> ""]

\* except Exception as e: raise Exception(f"OPA policy check failed: {str(e)}")
Raised(exc, str_e) ==
    [outcome |-> "raised", value |-> "", message |-> "OPA policy check failed: ",
     cause |-> str_e, context |-> exc]

\* str(e) of the exceptions the try block can raise
StrOfExc(exc) ==
    CASE exc = "ConnectError"    -> "All connection attempts failed"
      [] exc = "HTTPStatusError" -> "Server error for url"
      [] exc = "JSONDecodeError" -> "Expecting value"
      [] exc = "AttributeError"  -> "object has no attribute 'get'"
      [] OTHER                   -> "?"

\* the exception the try block raises on this reply, "" if none
TryRaises(rep) ==
    IF rep.kind = "transport" THEN rep.exc
    ELSE IF ~IsSuccess(rep.status) THEN "HTTPStatusError"
    ELSE IF ~rep.body.parseable THEN "JSONDecodeError"
    ELSE IF rep.body.top # "object" THEN "AttributeError"
    ELSE IF rep.body.result = "null" THEN "AttributeError"
    ELSE ""

\* result.get("result", {}).get("allow", False)
GetAllow(body) ==
    IF body.result = "absent" \/ body.allow = "absent"
    THEN "False"
    ELSE PyOfJson(body.allow)

check_permission_swallow(rep) ==
    IF TryRaises(rep) # "" THEN Returned("False") ELSE Returned(GetAllow(rep.body))

check_permission_strict(rep) ==
    IF TryRaises(rep) # ""
    THEN Raised(TryRaises(rep), StrOfExc(TryRaises(rep)))
    ELSE IF rep.body.result = "absent" \/ rep.body.allow = "absent"
         THEN Raised("KeyError", "'allow'")
         ELSE Returned(PyOfJson(rep.body.allow))

check_permission(rep) ==
    IF TryRaises(rep) # ""
    THEN Raised(TryRaises(rep), StrOfExc(TryRaises(rep)))
    ELSE Returned(GetAllow(rep.body))

(***************************************************************************)
(* Responses and the handlers behind the gate.                             *)
(***************************************************************************)
NoResponse == [kind |-> "none", status |-> 0, text |-> "", arg |-> <<>>, error |-> NoResult]
HttpResponse(status, text, arg) ==
    [kind |-> "response", status |-> status, text |-> text, arg |-> arg, error |-> NoResult]

\* dispatch ends by the adapter's exception propagating out of it
Propagated(res) == [kind |-> "raised", status |-> 0, text |-> "", arg |-> <<>>, error |-> res]

\* Response(content="Unauthorized", status_code=401)
Unauthorized == HttpResponse(401, "Unauthorized", <<>>)

SegV1    == <<"v", "1">>
SegAdmin == <<"a", "d", "m", "i", "n">>
SegUsers == <<"u", "s", "e", "r", "s">>

\* the routes of app/main.py and app/infrastructure/routes.py
Downstream(req) ==
    LET seg == Split(req.path, "/") IN
    IF req.path \in {PathLiveness, PathReadiness}
    THEN IF req.method = "GET"
         THEN HttpResponse(200, IF req.path = PathLiveness
                                THEN "{\"status\":\"alive\"}"
                                ELSE "{\"status\":\"ready\"}", <<>>)
         ELSE HttpResponse(405, "Method Not Allowed", <<>>)
    ELSE IF /\ Len(seg) = 5
            /\ SubSeq(seg, 1, 4) = <<<<>>, SegV1, SegAdmin, SegUsers>>
            /\ seg[5] # <<>>
         THEN IF req.method = "GET"
              THEN HttpResponse(200, "Hello!! {userName} You have reached the Get Users", seg[5])
              ELSE IF req.method = "POST"
                   THEN HttpResponse(200, "Hello!! {userName} You have access to edits", seg[5])
                   ELSE HttpResponse(405, "Method Not Allowed", <<>>)
         ELSE HttpResponse(404, "Not Found", <<>>)

(***************************************************************************)
(* OPAMiddleware.dispatch                                                  *)
(***************************************************************************)
Init ==
    /\ pc         = [r \in Reqs |-> "idle"]
    /\ request    = [r \in Reqs |-> NoRequest]
    /\ opa_input  = [r \in Reqs |-> NoInput]
    /\ evals      = [r \in Reqs |-> 0]
    /\ sent       = [r \in Reqs |-> <<>>]
    /\ reply      = [r \in Reqs |-> NoReply]
    /\ result     = [r \in Reqs |-> NoResult]
    /\ handlerSaw = [r \in Reqs |-> <<>>]
    /\ response   = [r \in Reqs |-> NoResponse]
    /\ rolesPc    = "off"
    /\ rolesIn    = AbsentHeader
    /\ rolesOut   = <<>>
    /\ pathPc     = "off"
    /\ pathIn     = <<>>
    /\ pathOut    = <<>>

\* await call_next(request)
CallNext(r, req) ==
    /\ handlerSaw' = [handlerSaw EXCEPT ![r] = Append(@, req)]
    /\ pc' = [pc EXCEPT ![r] = "await_next"]

\* await self.opa_adapter.check_permission(opa_input), up to the await of the POST
CallCheckPermission(r, input_data) ==
    /\ evals' = [evals EXCEPT ![r] = @ + 1]
    /\ sent'  = [sent EXCEPT ![r] = Append(@, PostOf(input_data))]
    /\ pc'    = [pc EXCEPT ![r] = "await_opa"]

\* a mutant: no bypass of the health paths
DispatchStart_noBypass(r) ==
    /\ pc[r] = "idle"
    /\ \E p \in Paths, m \in Methods, h \in Headers :
         LET req == [path |-> p, method |-> m, USER_ROLES |-> h] IN
         /\ request' = [request EXCEPT ![r] = req]
         /\ opa_input' = [opa_input EXCEPT ![r] = OpaInput(req)]
         /\ CallCheckPermission(r, OpaInput(req))
         /\ UNCHANGED handlerSaw
    /\ UNCHANGED <<reply, result, response, rolesVars, pathVars>>

\* dispatch from its entry to its first await
DispatchStart(r) ==
    /\ pc[r] = "idle"
    /\ \E p \in Paths, m \in Methods, h \in Headers :
         LET req == [path |-> p, method |-> m, USER_ROLES |-> h] IN
         /\ request' = [request EXCEPT ![r] = req]
         /\ IF StartsWith(req.path, HealthPrefix)
            THEN /\ CallNext(r, req)
                 /\ UNCHANGED <<opa_input, evals, sent>>
            ELSE /\ opa_input' = [opa_input EXCEPT ![r] = OpaInput(req)]
                 /\ CallCheckPermission(r, OpaInput(req))
                 /\ UNCHANGED handlerSaw
    /\ UNCHANGED <<reply, result, response, rolesVars, pathVars>>

\* a mutant: a second POST after a failed one
DispatchResume_retry(r) ==
    /\ pc[r] = "await_opa"
    /\ \E rep \in Replies :
         LET res == check_permission(rep) IN
         /\ reply'  = [reply EXCEPT ![r] = rep]
         /\ result' = [result EXCEPT ![r] = res]
         /\ IF res.outcome = "raised" /\ Len(sent[r]) < 2
            THEN /\ sent' = [sent EXCEPT ![r] = Append(@, PostOf(opa_input[r]))]
                 /\ UNCHANGED <<pc, response, handlerSaw>>
            ELSE IF res.outcome = "raised"
            THEN /\ response' = [response EXCEPT ![r] = Propagated(res)]
                 /\ pc' = [pc EXCEPT ![r] = "done"]
                 /\ UNCHANGED <<handlerSaw, sent>>
            ELSE IF ~Truthy(res.value)
            THEN /\ response' = [response EXCEPT ![r] = Unauthorized]
                 /\ pc' = [pc EXCEPT ![r] = "done"]
                 /\ UNCHANGED <<handlerSaw, sent>>
            ELSE /\ CallNext(r, request[r])
                 /\ UNCHANGED <<response, sent>>
    /\ UNCHANGED <<request, opa_input, evals, rolesVars, pathVars>>

\* a mutant: the verdict of a request evaluated earlier is kept and reused
DispatchResume_cached(r) ==
    /\ pc[r] = "await_opa"
    /\ \E rep \in Replies :
         LET cached == {q \in Reqs : q # r /\ result[q].outcome = "returned"}
             res == IF cached # {}
                    THEN result[CHOOSE q \in cached : TRUE]
                    ELSE check_permission(rep) IN
         /\ reply'  = [reply EXCEPT ![r] = rep]
         /\ result' = [result EXCEPT ![r] = res]
         /\ IF res.outcome = "raised"
            THEN /\ response' = [response EXCEPT ![r] = Propagated(res)]
                 /\ pc' = [pc EXCEPT ![r] = "done"]
                 /\ UNCHANGED handlerSaw
            ELSE IF ~Truthy(res.value)
            THEN /\ response' = [response EXCEPT ![r] = Unauthorized]
                 /\ pc' = [pc EXCEPT ![r] = "done"]
                 /\ UNCHANGED handlerSaw
            ELSE /\ CallNext(r, request[r])
                 /\ UNCHANGED response
    /\ UNCHANGED <<request, opa_input, evals, sent, rolesVars, pathVars>>

\* dispatch from the engine's answer to the POST to its return or next await
DispatchResume(r) ==
    /\ pc[r] = "await_opa"
    /\ \E rep \in Replies :
         LET res == check_permission(rep) IN
         /\ reply'  = [reply EXCEPT ![r] = rep]
         /\ result' = [result EXCEPT ![r] = res]
         /\ IF res.outcome = "raised"
            THEN /\ response' = [response EXCEPT ![r] = Propagated(res)]
                 /\ pc' = [pc EXCEPT ![r] = "done"]
                 /\ UNCHANGED handlerSaw
            ELSE IF ~Truthy(res.value)
            THEN /\ response' = [response EXCEPT ![r] = Unauthorized]
                 /\ pc' = [pc EXCEPT ![r] = "done"]
                 /\ UNCHANGED handlerSaw
            ELSE /\ CallNext(r, request[r])
                 /\ UNCHANGED response
    /\ UNCHANGED <<request, opa_input, evals, sent, rolesVars, pathVars>>

\* a mutant: the gate answers 401 in place of the handler's response
CallNextReturn_substitute(r) ==
    /\ pc[r] = "await_next"
    /\ response' = [response EXCEPT ![r] = Unauthorized]
    /\ pc' = [pc EXCEPT ![r] = "done"]
    /\ UNCHANGED <<request, opa_input, evals, sent, reply, result, handlerSaw, rolesVars, pathVars>>

\* return await call_next(request): the handler's response is returned
CallNextReturn(r) ==
    /\ pc[r] = "await_next"
    /\ response' = [response EXCEPT ![r] = Downstream(handlerSaw[r][Len(handlerSaw[r])])]
    /\ pc' = [pc EXCEPT ![r] = "done"]
    /\ UNCHANGED <<request, opa_input, evals, sent, reply, result, handlerSaw, rolesVars, pathVars>>

Next ==
    \/ \E r \in Reqs : DispatchStart(r)
    \/ \E r \in Reqs : DispatchResume(r)
    \/ \E r \in Reqs : CallNextReturn(r)

Spec == Init /\ [][Next]_vars

(***************************************************************************)
(* The role derivation alone, over every header value up to MaxHeaderLen.  *)
(***************************************************************************)
HeaderAlphabet == {"a", "b", ","}
HeaderValues == UNION {[1..k -> HeaderAlphabet] : k \in 0..MaxHeaderLen}
AllHeaders == {AbsentHeader} \cup {HeaderOf(v) : v \in HeaderValues}

InitRoles ==
    /\ pc         = [r \in Reqs |-> "idle"]
    /\ request    = [r \in Reqs |-> NoRequest]
    /\ opa_input  = [r \in Reqs |-> NoInput]
    /\ evals      = [r \in Reqs |-> 0]
    /\ sent       = [r \in Reqs |-> <<>>]
    /\ reply      = [r \in Reqs |-> NoReply]
    /\ result     = [r \in Reqs |-> NoResult]
    /\ handlerSaw = [r \in Reqs |-> <<>>]
    /\ response   = [r \in Reqs |-> NoResponse]
    /\ rolesPc    = "input"
    /\ rolesIn    \in AllHeaders
    /\ rolesOut   = <<>>
    /\ pathPc     = "off"
    /\ pathIn     = <<>>
    /\ pathOut    = <<>>

\* lines 17-18 of dispatch applied to the header
DeriveRoles ==
    /\ rolesPc = "input"
    /\ rolesOut' = RolesOf(HeaderGet(rolesIn))
    /\ rolesPc' = "done"
    /\ UNCHANGED <<rolesIn, gateVars, pathVars>>

NextRoles == DeriveRoles

SpecRoles == InitRoles /\ [][NextRoles]_vars

(***************************************************************************)
(* The path derivation alone, over every path up to MaxPathLen and the     *)
(* path of the users route.                                                *)
(***************************************************************************)
PathUsersAlice == <<"/", "v", "1", "/", "a", "d", "m", "i", "n", "/", "u", "s", "e", "r", "s",
                    "/", "a", "l", "i", "c", "e">>

PathAlphabet == {"/", "a", "b"}
AllPaths == UNION {[1..k -> PathAlphabet] : k \in 0..MaxPathLen}
                \cup {PathUsersAlice, PathUsersBob, PathLiveness}

InitPath ==
    /\ pc         = [r \in Reqs |-> "idle"]
    /\ request    = [r \in Reqs |-> NoRequest]
    /\ opa_input  = [r \in Reqs |-> NoInput]
    /\ evals      = [r \in Reqs |-> 0]
    /\ sent       = [r \in Reqs |-> <<>>]
    /\ reply      = [r \in Reqs |-> NoReply]
    /\ result     = [r \in Reqs |-> NoResult]
    /\ handlerSaw = [r \in Reqs |-> <<>>]
    /\ response   = [r \in Reqs |-> NoResponse]
    /\ rolesPc    = "off"
    /\ rolesIn    = AbsentHeader
    /\ rolesOut   = <<>>
    /\ pathPc     = "input"
    /\ pathIn     \in AllPaths
    /\ pathOut    = <<>>

\* line 22 of dispatch applied to the path
DerivePath ==
    /\ pathPc = "input"
    /\ pathOut' = PathSegments(pathIn)
    /\ pathPc' = "done"
    /\ UNCHANGED <<pathIn, gateVars, rolesVars>>

NextPath == DerivePath

SpecPath == InitPath /\ [][NextPath]_vars


(***************************************************************************)
(* Vocabulary of the properties                                            *)
(***************************************************************************)
Started(r)    == pc[r] # "idle"
Finished(r)   == pc[r] = "done"
HealthPath(r) == StartsWith(request[r].path, HealthPrefix)
Gated(r)      == Started(r) /\ ~HealthPath(r)
Invoked(r)    == Len(handlerSaw[r]) > 0
Evaluated(r)  == result[r].outcome # "pending"

\* str.join
RECURSIVE Join(_, _)
Join(pieces, sep) ==
    IF Len(pieces) = 0 THEN <<>>
    ELSE IF Len(pieces) = 1 THEN pieces[1]
    ELSE pieces[1] \o <<sep>> \o Join(Tail(pieces), sep)

\* the engine did not answer: no connection, no success status, or no JSON
TransportLevel(rep) == rep.kind = "transport"
NonSuccess(rep)     == rep.kind = "http" /\ ~(rep.status \in 200..299)
NotJson(rep)        == rep.kind = "http" /\ rep.status \in 200..299 /\ ~rep.body.parseable
ObjectBody(rep)     == rep.kind = "http" /\ rep.status \in 200..299
                       /\ rep.body.parseable /\ rep.body.top = "object"
LacksAllow(rep)     == ObjectBody(rep) /\ (rep.body.result = "absent" \/
                         (rep.body.result = "object" /\ rep.body.allow = "absent"))
Denial(rep)         == ObjectBody(rep) /\ rep.body.result = "object" /\ rep.body.allow = "false"
EngineFailure(rep)  == \/ TransportLevel(rep) \/ NonSuccess(rep) \/ NotJson(rep)
                       \/ (rep.kind = "http" /\ rep.status \in 200..299 /\ rep.body.parseable
                           /\ ~(rep.body.top = "object" /\ rep.body.result = "object"
                                /\ rep.body.allow # "absent"))

(***************************************************************************)
(* C1: a request that is not bypassed as a health path reaches the handler *)
(* only after its evaluation completed with allow = true; on allow = false *)
(* the gate answers 401 "Unauthorized" and the handler is never invoked.   *)
(***************************************************************************)
C1_ForwardOnlyOnTrue ==
    \A r \in Reqs : Gated(r) =>
        /\ (Invoked(r) => evals[r] = 1 /\ result[r] = Returned("True"))
        /\ (result[r] = Returned("False") =>
                response[r] = Unauthorized /\ ~Invoked(r))

(***************************************************************************)
(* C2: when the evaluation of a non-health request fails with an           *)
(* engine-failure error, the gate answers 401 "Unauthorized" and the       *)
(* handler is never invoked.                                               *)
(***************************************************************************)
C2_EngineFailureGives401 ==
    \A r \in Reqs : Gated(r) /\ result[r].outcome = "raised" =>
        response[r] = Unauthorized /\ ~Invoked(r)

(***************************************************************************)
(* C3: a request whose path starts with the health prefix, whatever its    *)
(* method and USER_ROLES header, causes no policy evaluation and no POST,  *)
(* and is forwarded: the handler is invoked with it and the handler's      *)
(* response is the outcome.                                                *)
(***************************************************************************)
C3_HealthBypass ==
    \A r \in Reqs : Started(r) /\ HealthPath(r) =>
        /\ evals[r] = 0 /\ sent[r] = <<>> /\ reply[r] = NoReply /\ ~Evaluated(r)
        /\ handlerSaw[r] = <<request[r]>>
        /\ (Finished(r) => response[r] = Downstream(request[r]))

C3_Witness ==
    \E r \in Reqs :
        /\ Finished(r) /\ request[r].path = PathLiveness
        /\ request[r].method = "POST" /\ request[r].USER_ROLES.present
        /\ evals[r] = 0 /\ Invoked(r)

(***************************************************************************)
(* C4: only /health/liveness and /health/readiness bypass enforcement: a   *)
(* request with any other path reaches the handler only after the Policy   *)
(* Client evaluated it.                                                    *)
(***************************************************************************)
C4_OnlyHealthEndpointsBypass ==
    \A r \in Reqs :
        Started(r) /\ request[r].path \notin {PathLiveness, PathReadiness} /\ Invoked(r) =>
            evals[r] = 1 /\ result[r].outcome = "returned"

(***************************************************************************)
(* C5: a non-health request has exactly one policy evaluation, and the     *)
(* evaluation exactly one POST, carrying that request's query, whatever    *)
(* the outcome: nothing is retried.                                        *)
(***************************************************************************)
C5_OneEvaluationOnePost ==
    \A r \in Reqs : Gated(r) =>
        /\ evals[r] = 1
        /\ Len(sent[r]) = 1
        /\ sent[r][1] = PostOf(opa_input[r])

C5_Witness ==
    \E r \in Reqs :
        /\ Finished(r) /\ ~HealthPath(r)
        /\ result[r].outcome = "raised" /\ Len(sent[r]) = 1
        /\ \E q \in Reqs : Finished(q) /\ ~HealthPath(q) /\ result[q] = Returned("False")

(***************************************************************************)
(* C6: when the evaluation returns allow = true the handler is invoked     *)
(* exactly once, with the request as it came in, and its response is the   *)
(* gate's response; the 401 is never put in its place.                     *)
(***************************************************************************)
C6_ForwardUnchanged ==
    \A r \in Reqs : Gated(r) /\ result[r] = Returned("True") =>
        /\ pc[r] \in {"await_next", "done"}
        /\ handlerSaw[r] = <<request[r]>>
        /\ (Finished(r) =>
                /\ response[r] = Downstream(request[r])
                /\ response[r] # Unauthorized)

C6_Witness ==
    \E r \in Reqs :
        /\ Finished(r) /\ ~HealthPath(r) /\ result[r] = Returned("True")
        /\ response[r].status = 200 /\ response[r].arg = <<"b", "o", "b">>

(***************************************************************************)
(* C7: check_permission never returns False when the call failed at the    *)
(* transport level, the status was not a success, or the body was not      *)
(* JSON: it raises an error that carries the cause.  So a returned False   *)
(* means the engine answered with a success status and a JSON body.        *)
(***************************************************************************)
C7_FailureIsRaisedNotFalse ==
    \A r \in Reqs : Evaluated(r) =>
        /\ (TransportLevel(reply[r]) =>
                /\ result[r].outcome = "raised"
                /\ result[r].context = reply[r].exc
                /\ result[r].cause = "All connection attempts failed")
        /\ (NonSuccess(reply[r]) =>
                /\ result[r].outcome = "raised"
                /\ result[r].context = "HTTPStatusError"
                /\ result[r].cause = "Server error for url")
        /\ (NotJson(reply[r]) =>
                /\ result[r].outcome = "raised"
                /\ result[r].context = "JSONDecodeError"
                /\ result[r].cause = "Expecting value")
        /\ (result[r] = Returned("False") =>
                /\ reply[r].kind = "http"
                /\ reply[r].status \in 200..299
                /\ reply[r].body.parseable)

C7_Witness ==
    \E r, q \in Reqs :
        /\ Finished(r) /\ TransportLevel(reply[r]) /\ result[r].outcome = "raised"
        /\ Finished(q) /\ NotJson(reply[q]) /\ result[q].outcome = "raised"

(***************************************************************************)
(* C8: on a success status with a JSON object body, check_permission       *)
(* returns the boolean at result.allow; when result or its allow is absent *)
(* it returns False, not an error, and the gate answers 401.               *)
(***************************************************************************)
C8_LenientParse ==
    \A r \in Reqs : Evaluated(r) /\ ObjectBody(reply[r]) =>
        /\ (reply[r].body.result = "object" /\ reply[r].body.allow = "true" =>
                result[r] = Returned("True"))
        /\ (reply[r].body.result = "object" /\ reply[r].body.allow = "false" =>
                result[r] = Returned("False"))
        /\ (LacksAllow(reply[r]) =>
                /\ result[r] = Returned("False")
                /\ response[r] = Unauthorized
                /\ ~Invoked(r))

C8_Witness ==
    \E r, q \in Reqs :
        /\ Finished(r) /\ reply[r] = HttpReply(200, JsonObject("absent", "absent"))
        /\ response[r] = Unauthorized
        /\ Finished(q) /\ reply[q] = HttpReply(200, JsonObject("object", "absent"))
        /\ response[q] = Unauthorized

(***************************************************************************)
(* C9: every engine failure (transport error, non-success status,          *)
(* malformed response, a body without result.allow included) has an        *)
(* outcome at the gate that differs from the outcome of a policy denial,   *)
(* and in both cases the handler is not invoked.                           *)
(***************************************************************************)
C9_FailureDistinctFromDenial ==
    \A r, q \in Reqs :
        /\ Finished(r) /\ ~HealthPath(r) /\ EngineFailure(reply[r])
        /\ Finished(q) /\ ~HealthPath(q) /\ Denial(reply[q])
        => /\ response[r] # response[q]
           /\ ~Invoked(r) /\ ~Invoked(q)

(***************************************************************************)
(* C10: the roles of the query: an absent or empty USER_ROLES header gives *)
(* no roles at all (not one empty role); a non-empty header gives exactly  *)
(* its pieces between the commas, so "a,b" gives a and b, and "a,,b" gives *)
(* a collection holding an empty string.                                   *)
(***************************************************************************)
C10_RolesFromHeader ==
    rolesPc = "done" =>
        LET v == rolesIn.value IN
        /\ (~rolesIn.present \/ v = <<>> => rolesOut = <<>>)
        /\ (rolesIn.present /\ v # <<>> =>
                /\ Join(rolesOut, ",") = v
                /\ Len(rolesOut) = 1 + Cardinality({i \in 1..Len(v) : v[i] = ","})
                /\ \A k \in 1..Len(rolesOut) :
                       \A i \in 1..Len(rolesOut[k]) : rolesOut[k][i] # ",")
        /\ (rolesIn.present /\ v = <<"a", ",", "b">> => rolesOut = << <<"a">>, <<"b">> >>)
        /\ (rolesIn.present /\ v = <<"a", ",", ",", "b">> =>
                rolesOut = << <<"a">>, <<>>, <<"b">> >>)

C10_Witness ==
    /\ rolesPc = "done"
    /\ rolesIn = HeaderOf(<<"a", ",", ",", "b">>)
    /\ \E k \in 1..Len(rolesOut) : rolesOut[k] = <<>>

(***************************************************************************)
(* C11: the path of the query is the sequence of the pieces of the request *)
(* path between its '/', empty pieces kept: a leading slash gives a        *)
(* leading empty segment, /v1/admin/users/alice gives                      *)
(* ["", "v1", "admin", "users", "alice"], and joining the segments with    *)
(* '/' gives the path back.                                                *)
(***************************************************************************)
C11_PathSegments ==
    pathPc = "done" =>
        /\ Join(pathOut, "/") = pathIn
        /\ Len(pathOut) = 1 + Cardinality({i \in 1..Len(pathIn) : pathIn[i] = "/"})
        /\ \A k \in 1..Len(pathOut) :
               \A i \in 1..Len(pathOut[k]) : pathOut[k][i] # "/"
        /\ (Len(pathIn) > 0 /\ pathIn[1] = "/" => pathOut[1] = <<>>)
        /\ (pathIn = PathUsersAlice =>
                pathOut = << <<>>, <<"v", "1">>, <<"a", "d", "m", "i", "n">>,
                             <<"u", "s", "e", "r", "s">>, <<"a", "l", "i", "c", "e">> >>)

C11_Witness ==
    /\ pathPc = "done"
    /\ pathIn = PathUsersAlice
    /\ Len(pathOut) = 5
    /\ pathOut[1] = <<>>

\* everything the gate and the adapter hold for one request
Slot(r) == <<pc[r], request[r], opa_input[r], evals[r], sent[r], reply[r], result[r],
             handlerSaw[r], response[r]>>

\* the outcome of a gated request as its own request and its own answer fix it
OwnOutcome(r) ==
    /\ opa_input[r] = [built  |-> TRUE,
                       path   |-> Split(request[r].path, "/"),
                       roles  |-> IF HeaderGet(request[r].USER_ROLES) = <<>> THEN <<>>
                                  ELSE Split(HeaderGet(request[r].USER_ROLES), ","),
                       method |-> request[r].method]
    /\ sent[r] = <<[url |-> OPA_SERVER_URL, json |-> [input |-> opa_input[r]]]>>
    /\ (~Evaluated(r) => pc[r] = "await_opa" /\ reply[r] = NoReply /\ ~Invoked(r)
                         /\ response[r] = NoResponse)
    /\ (Evaluated(r) =>
            /\ reply[r] \in Replies
            /\ result[r] = check_permission(reply[r])
            /\ (result[r].outcome = "raised" =>
                    Finished(r) /\ response[r] = Propagated(result[r]) /\ ~Invoked(r))
            /\ (result[r].outcome = "returned" /\ ~Truthy(result[r].value) =>
                    Finished(r) /\ response[r] = Unauthorized /\ ~Invoked(r))
            /\ (result[r].outcome = "returned" /\ Truthy(result[r].value) =>
                    /\ handlerSaw[r] = <<request[r]>>
                    /\ IF Finished(r) THEN response[r] = Downstream(request[r])
                       ELSE response[r] = NoResponse))

(***************************************************************************)
(* C12: under every interleaving of the requests, the outcome of a request *)
(* (forward, reject or error) is fixed by the engine's answer to the one   *)
(* call made for it with its own query; a step of one request changes      *)
(* nothing held for another, and no verdict is kept or reused.             *)
(***************************************************************************)
C12_RequestsIsolated ==
    /\ [](\A r \in Reqs : Gated(r) => OwnOutcome(r))
    /\ [][/\ \A r, q \in Reqs : r # q => (Slot(r)' = Slot(r) \/ Slot(q)' = Slot(q))
          /\ \A r \in Reqs : Started(r) =>
                 /\ request[r]' = request[r]
                 /\ opa_input[r]' = opa_input[r]
                 /\ (Evaluated(r) => reply[r]' = reply[r] /\ result[r]' = result[r])]_vars

C12_Witness ==
    \E r, q \in Reqs :
        /\ r # q /\ Finished(r) /\ Finished(q) /\ ~HealthPath(r) /\ ~HealthPath(q)
        /\ opa_input[r] # opa_input[q]
        /\ reply[r] = HttpReply(200, JsonObject("object", "true"))
        /\ reply[q] = HttpReply(200, JsonObject("object", "false"))
        /\ response[r].status = 200 /\ Invoked(r)
        /\ response[q] = Unauthorized /\ ~Invoked(q)

(***************************************************************************)
(* C13: a non-health request is forwarded only if the engine's successful  *)
(* response holds the boolean true at result.allow; a result.allow that is *)
(* present but not the boolean true (the string "false", a non-empty list) *)
(* never gets the request forwarded.                                       *)
(***************************************************************************)
C13_ForwardOnlyOnBooleanTrue ==
    \A r \in Reqs : Gated(r) /\ Invoked(r) =>
        /\ reply[r].kind = "http" /\ reply[r].status \in 200..299
        /\ reply[r].body.parseable /\ reply[r].body.top = "object"
        /\ reply[r].body.result = "object"
        /\ reply[r].body.allow = "true"

====
